---- MODULE Spec2Model ----
(***************************************************************************)
(* Derived quantities and CSV export of FESTIM.                            *)
(*                                                                         *)
(*   SurfaceQuantity      festim/exports/surface_quantity.py               *)
(*   AverageVolume, AverageVolumeCylindrical, AverageVolumeSpherical       *)
(*                        festim/exports/derived_quantities/               *)
(*                        average_volume.py                                *)
(*   TotalVolume, TotalSurface                                             *)
(*                        FESTIM/exports/derived_quantities_export.py      *)
(*                                                                         *)
(* Three specifications share the module: SpecSurface (one                 *)
(* SurfaceQuantity, its validated attributes and its CSV file),            *)
(* SpecAverage (two volume quantity instances over one mesh and one        *)
(* solution function) and SpecSetters (the validating setters of both      *)
(* families on constructed objects).                                       *)
(***************************************************************************)
EXTENDS Integers, Sequences, FiniteSets, TLC

VARIABLES
    sq,      \* the SurfaceQuantity instance (alive after a successful __init__)
    fs,      \* the file system: file name -> [exists, rows, opens]
    nWrite,  \* number of write(t) calls made so far
    last,    \* the last call made: [op, id, arg, exc, res]
    vq,      \* the volume quantity instances: id -> object
    u,       \* the solution function: cell -> value of the field
    phase,   \* "setup" until the driver initialises the problem, then "run"
    nExtract \* id -> number of times compute() extracted the radial coordinate

vars == <<sq, fs, nWrite, last, vq, u, phase, nExtract>>

(***************************************************************************)
(* Bounds of the model.                                                    *)
(***************************************************************************)
\* write(t) calls in one run
MaxWrites == 2
\* largest value of the solution function in a cell
MaxField == 1

(***************************************************************************)
(* Python values. Every value carries its type, a string content (a        *)
(* sequence of characters) and a number.                                   *)
(***************************************************************************)
PyVal(t, s, n) == [t |-> t, s |-> s, n |-> n]
PyNone == PyVal("NoneType", <<>>, 0)
PyUnset == PyVal("<unset>", <<>>, 0)
PyStr(s) == PyVal("str", s, 0)
PyInt(n) == PyVal("int", <<>>, n)
PyBool(b) == PyVal("bool", <<>>, IF b THEN 1 ELSE 0)
PyFloat(n) == PyVal("float", <<>>, n)
PySpecies == PyVal("Species", <<"H">>, 0)
PySubdomain == PyVal("SurfaceSubdomain1D", <<>>, 1)

\* isinstance(value, types): bool is a subclass of int
IsInstance(value, types) ==
    \/ value.t \in types
    \/ value.t = "bool" /\ "int" \in types

\* str.endswith(suffix)
EndsWith(s, suffix) ==
    /\ Len(s) >= Len(suffix)
    /\ SubSeq(s, Len(s) - Len(suffix) + 1, Len(s)) = suffix

CsvSuffix == <<".", "c", "s", "v">>

\* the strings handed to the setters: "o.csv", ".csv", "o.txt", "ocsv"
StrInputs ==
    { <<"o", ".", "c", "s", "v">>, <<".", "c", "s", "v">>,
      <<"o", ".", "t", "x", "t">>, <<"o", "c", "s", "v">> }

\* the values handed to the setters and to __init__
Inputs ==
    {PyNone, PyInt(1), PyBool(TRUE), PyBool(FALSE), PySpecies, PySubdomain}
    \cup {PyStr(s) : s \in StrInputs}

\* the simulation times handed to write(t)
Times == {1, 2}

\* the values a subclass stores in the attribute value
Values == {7}

(***************************************************************************)
(* SurfaceQuantity                                                         *)
(***************************************************************************)
NoResult == [t |-> "none", n |-> 0, d |-> 1, p |-> 0]

\* an object whose attributes are not assigned yet
NewObject ==
    [alive |-> FALSE, field |-> PyUnset, surface_subdomain |-> PyUnset,
     filename |-> PyUnset, value |-> PyUnset]

Return(self) == [obj |-> self, exc |-> "none"]
Raise(self, exc) == [obj |-> self, exc |-> exc]

\* set_filename without the suffix check
set_filename_NoSuffixCheck(self, value) ==
    IF value.t = "NoneType"
    THEN Return([self EXCEPT !.filename = value])
    ELSE IF ~IsInstance(value, {"str"})
    THEN Raise(self, "TypeError")
    ELSE Return([self EXCEPT !.filename = value])

\* the filename setter
set_filename(self, value) ==
    IF value.t = "NoneType"
    THEN Return([self EXCEPT !.filename = value])
    ELSE IF ~IsInstance(value, {"str"})
    THEN Raise(self, "TypeError")
    ELSE IF ~EndsWith(value.s, CsvSuffix)
    THEN Raise(self, "ValueError")
    ELSE Return([self EXCEPT !.filename = value])

\* set_surface_subdomain without the exclusion of bool
set_surface_subdomain_AllowBool(self, value) ==
    IF ~IsInstance(value, {"int", "SurfaceSubdomain1D"})
    THEN Raise(self, "TypeError")
    ELSE Return([self EXCEPT !.surface_subdomain = value])

\* the surface_subdomain setter
set_surface_subdomain(self, value) ==
    IF ~IsInstance(value, {"int", "SurfaceSubdomain1D"})
       \/ IsInstance(value, {"bool"})
    THEN Raise(self, "TypeError")
    ELSE Return([self EXCEPT !.surface_subdomain = value])

\* the field setter
set_field(self, value) ==
    IF ~IsInstance(value, {"Species", "str"})
    THEN Raise(self, "TypeError")
    ELSE Return([self EXCEPT !.field = value])

\* __init__ storing the filename without going through its setter
SurfaceQuantity_init_RawFilename(field, surface_subdomain, filename) ==
    LET r1 == set_field(NewObject, field)
        r2 == set_surface_subdomain(r1.obj, surface_subdomain)
    IN  IF r1.exc # "none" THEN Raise(NewObject, r1.exc)
        ELSE IF r2.exc # "none" THEN Raise(NewObject, r2.exc)
        ELSE Return([r2.obj EXCEPT !.filename = filename, !.alive = TRUE])

\* __init__: the three assignments in order; the first that raises ends it
SurfaceQuantity_init(field, surface_subdomain, filename) ==
    LET r1 == set_field(NewObject, field)
        r2 == set_surface_subdomain(r1.obj, surface_subdomain)
        r3 == set_filename(r2.obj, filename)
    IN  IF r1.exc # "none" THEN Raise(NewObject, r1.exc)
        ELSE IF r2.exc # "none" THEN Raise(NewObject, r2.exc)
        ELSE IF r3.exc # "none" THEN Raise(NewObject, r3.exc)
        ELSE Return([r3.obj EXCEPT !.alive = TRUE])

\* the property write_to_file
write_to_file(self) == IF self.filename.t = "NoneType" THEN FALSE ELSE TRUE

NoFile == [exists |-> FALSE, rows |-> <<>>, opens |-> 0]

\* open(name, mode="w"): truncates the file
OpenTruncate(files, name) ==
    [files EXCEPT ![name] = [exists |-> TRUE, rows |-> <<>>,
                             opens |-> @.opens + 1]]

\* open(name, mode="a"): creates the file when it is missing, keeps its rows
OpenAppend(files, name) ==
    [files EXCEPT ![name] = [exists |-> TRUE, rows |-> @.rows,
                             opens |-> @.opens + 1]]

\* write(t) falling back to the file "o.csv" when no filename is set
write_DefaultFile(self, files, t) ==
    LET name == IF self.filename.t = "str" THEN self.filename.s
                ELSE <<"o", ".", "c", "s", "v">>
        opened == [files EXCEPT ![name] = [exists |-> TRUE, rows |-> @.rows,
                                           opens |-> @.opens + 1]]
    IN  IF self.value.t = "<unset>"
        THEN [fs |-> opened, exc |-> "AttributeError"]
        ELSE [fs |-> [opened EXCEPT ![name].rows = Append(@, <<t, self.value.n>>)],
              exc |-> "none"]

\* write(t): open(self.filename) raises on None; the row [t, self.value] is
\* built after the file is open, and self.value raises when never assigned
write(self, files, t) ==
    IF self.filename.t # "str"
    THEN [fs |-> files, exc |-> "TypeError"]
    ELSE LET opened == OpenAppend(files, self.filename.s)
         IN  IF self.value.t = "<unset>"
             THEN [fs |-> opened, exc |-> "AttributeError"]
             ELSE [fs |-> [opened EXCEPT ![self.filename.s].rows =
                               Append(@, <<t, self.value.n>>)],
                   exc |-> "none"]

Call(op, arg, exc) ==
    [op |-> op, id |-> 0, arg |-> arg, exc |-> exc, res |-> NoResult]

Construct ==
    /\ ~sq.alive
    /\ \E field \in Inputs, surface_subdomain \in Inputs, filename \in Inputs :
          LET r == SurfaceQuantity_init(field, surface_subdomain, filename)
          IN  /\ sq' = r.obj
              /\ last' = Call("__init__", <<field, surface_subdomain, filename>>, r.exc)
    /\ UNCHANGED <<fs, nWrite, vq, u, phase, nExtract>>

SetFilename ==
    /\ sq.alive
    /\ \E value \in Inputs :
          LET r == set_filename(sq, value)
          IN  /\ sq' = r.obj
              /\ last' = Call("filename", <<value>>, r.exc)
    /\ UNCHANGED <<fs, nWrite, vq, u, phase, nExtract>>

SetSurfaceSubdomain ==
    /\ sq.alive
    /\ \E value \in Inputs :
          LET r == set_surface_subdomain(sq, value)
          IN  /\ sq' = r.obj
              /\ last' = Call("surface_subdomain", <<value>>, r.exc)
    /\ UNCHANGED <<fs, nWrite, vq, u, phase, nExtract>>

SetField ==
    /\ sq.alive
    /\ \E value \in Inputs :
          LET r == set_field(sq, value)
          IN  /\ sq' = r.obj
              /\ last' = Call("field", <<value>>, r.exc)
    /\ UNCHANGED <<fs, nWrite, vq, u, phase, nExtract>>

\* a subclass' compute() stores its result in self.value
SetValue ==
    /\ sq.alive
    /\ \E v \in Values :
          /\ sq' = [sq EXCEPT !.value = PyFloat(v)]
          /\ last' = Call("value", <<PyFloat(v)>>, "none")
    /\ UNCHANGED <<fs, nWrite, vq, u, phase, nExtract>>

Write ==
    /\ sq.alive
    /\ nWrite < MaxWrites
    /\ \E t \in Times :
          LET r == write(sq, fs, t)
          IN  /\ fs' = r.fs
              /\ last' = Call("write", <<PyFloat(t)>>, r.exc)
    /\ nWrite' = nWrite + 1
    /\ UNCHANGED <<sq, vq, u, phase, nExtract>>


(***************************************************************************)
(* Numbers. A number is (n / d) * pi^p with d > 0, kept in lowest terms;   *)
(* since pi is transcendental, two such numbers are equal exactly when     *)
(* both are 0 or their fields agree. "nan" is numpy's result of 0.0 / 0.0. *)
(***************************************************************************)
RECURSIVE Gcd(_, _)
Gcd(a, b) == IF b = 0 THEN a ELSE Gcd(b, a % b)

Abs(x) == IF x < 0 THEN -x ELSE x

Num(n, d, p) ==
    IF n = 0 THEN [t |-> "float", n |-> 0, d |-> 1, p |-> 0]
    ELSE LET g == Gcd(Abs(n), Abs(d))
             sgn == IF d < 0 THEN -1 ELSE 1
         IN  [t |-> "float", n |-> sgn * (n \div g), d |-> sgn * (d \div g), p |-> p]

NaN == [t |-> "nan", n |-> 0, d |-> 1, p |-> 0]

Mul(a, b) == Num(a.n * b.n, a.d * b.d, a.p + b.p)
Div(a, b) == Num(a.n * b.d, a.d * b.n, a.p - b.p)

(***************************************************************************)
(* Angles are whole multiples of pi / 2: the angle k stands for k * pi/2,  *)
(* so that 2 * np.pi is 4 and np.pi is 2.                                  *)
(***************************************************************************)
TwoPi == 4
Pi == 2
Angle(k) == Num(k, 2, 1)

\* np.cos of the angle k * pi/2
Cos(k) == CASE k % 4 = 0 -> 1 [] k % 4 = 2 -> -1 [] OTHER -> 0

\* the ranges handed to the range setters, as (value[0], value[1]): the
\* defaults (0, 2 pi), (0, pi) and (-pi, pi), ranges below and above the
\* bounds, and the descending range (pi/2, -pi)
RangeInputs ==
    { <<0, 4>>, <<0, 2>>, <<-2, 2>>, <<-1, 2>>, <<0, 5>>, <<1, -2>>, <<-3, 2>> }

(***************************************************************************)
(* The mesh and the integration measures of the PDE engine. Cell i lies at *)
(* the radial coordinate i and has measure 1; volume 1 holds every cell,   *)
(* volume 2 holds none (a region of measure zero); surface s is the facet  *)
(* at cell s.                                                              *)
(***************************************************************************)
Cells == {1, 2}
Volumes == {1, 2}
CellsOf(volume) == IF volume = 1 THEN Cells ELSE {}
FacetsOf(surface) == {surface} \cap Cells

RECURSIVE Sum(_, _)
Sum(S, term) ==
    IF S = {} THEN 0
    ELSE LET i == CHOOSE x \in S : TRUE
         IN  term[i] + Sum(S \ {i}, term)

\* f.assemble(integrand * dx(volume)), the integrand given cell by cell
assemble(integrand, region) == Num(Sum(region, integrand), 1, 0)

\* rthetaz[0] of f.SpatialCoordinate(mesh): the radial coordinate of a cell
RadialCoordinate(r, i) == IF r = "x[0]" THEN i ELSE 0

(***************************************************************************)
(* Volume quantities                                                       *)
(***************************************************************************)
Ids == {1, 2}
NoRange == <<0, 0>>

NoQuantity ==
    [alive |-> FALSE, kind |-> "none", volume |-> 0, function |-> "None",
     r |-> "None", z |-> 0, azimuth_range |-> NoRange, polar_range |-> NoRange]

\* VolumeQuantity.__init__(field, volume), reached through super().__init__
VolumeQuantity_init(kind, volume) ==
    [NoQuantity EXCEPT !.alive = TRUE, !.kind = kind, !.volume = volume]

\* AverageVolumeCylindrical.azimuth_range setter
set_azimuth_range_cylindrical(self, value) ==
    IF value[1] < 0 \/ value[2] > TwoPi
    THEN Raise(self, "ValueError")
    ELSE Return([self EXCEPT !.azimuth_range = value])

\* set_polar_range storing the value before checking it
set_polar_range_AssignFirst(self, value) ==
    IF value[1] < -Pi \/ value[2] > Pi
    THEN Raise([self EXCEPT !.polar_range = value], "ValueError")
    ELSE Return([self EXCEPT !.polar_range = value])

\* AverageVolumeSpherical.polar_range setter
set_polar_range(self, value) ==
    IF value[1] < -Pi \/ value[2] > Pi
    THEN Raise(self, "ValueError")
    ELSE Return([self EXCEPT !.polar_range = value])

\* AverageVolumeSpherical.azimuth_range setter
set_azimuth_range_spherical(self, value) ==
    IF value[1] < 0 \/ value[2] > Pi
    THEN Raise(self, "ValueError")
    ELSE Return([self EXCEPT !.azimuth_range = value])

\* the azimuth_range setter of the object's class
set_azimuth_range(self, value) ==
    IF self.kind = "AverageVolumeCylindrical"
    THEN set_azimuth_range_cylindrical(self, value)
    ELSE set_azimuth_range_spherical(self, value)

\* AverageVolumeCylindrical.__init__
AverageVolumeCylindrical_init(volume, z, azimuth_range) ==
    LET o == [VolumeQuantity_init("AverageVolumeCylindrical", volume)
                  EXCEPT !.r = "None", !.z = z]
        r == set_azimuth_range_cylindrical(o, azimuth_range)
    IN  IF r.exc # "none" THEN Raise(NoQuantity, r.exc) ELSE r

\* AverageVolumeSpherical.__init__
AverageVolumeSpherical_init(volume, azimuth_range, polar_range) ==
    LET o == [VolumeQuantity_init("AverageVolumeSpherical", volume)
                  EXCEPT !.r = "None"]
        r1 == set_azimuth_range_spherical(o, azimuth_range)
        r2 == set_polar_range(r1.obj, polar_range)
    IN  IF r1.exc # "none" THEN Raise(NoQuantity, r1.exc)
        ELSE IF r2.exc # "none" THEN Raise(NoQuantity, r2.exc)
        ELSE r2

\* the outcome of a compute(): the object after it, the exception, the value
\* returned and whether the radial coordinate was extracted from the mesh
Computed(self, exc, res, extracted) ==
    [obj |-> self, exc |-> exc, res |-> res, extracted |-> extracted]

\* TotalVolume.compute
compute_TotalVolume(self, fn) ==
    IF self.function = "None"
    THEN Computed(self, "TypeError", NoResult, FALSE)
    ELSE Computed(self, "none", assemble(fn, CellsOf(self.volume)), FALSE)

\* TotalSurface.compute
compute_TotalSurface(self, fn) ==
    IF self.function = "None"
    THEN Computed(self, "TypeError", NoResult, FALSE)
    ELSE Computed(self, "none", assemble(fn, FacetsOf(self.volume)), FALSE)

\* AverageVolume.compute keeping the measure of the volume in an attribute
compute_AverageVolume_KeepsMeasure(self, fn) ==
    IF self.function = "None"
    THEN Computed(self, "TypeError", NoResult, FALSE)
    ELSE LET region == CellsOf(self.volume)
             values == assemble(fn, region)
             volume == assemble([i \in Cells |-> 1], region)
             o == [self EXCEPT !.z = volume.n]
         IN  IF volume.n = 0
             THEN Computed(o, "ZeroDivisionError", NoResult, FALSE)
             ELSE Computed(o, "none", Div(values, volume), FALSE)

\* AverageVolume.compute: a division of two Python floats
compute_AverageVolume(self, fn) ==
    IF self.function = "None"
    THEN Computed(self, "TypeError", NoResult, FALSE)
    ELSE LET region == CellsOf(self.volume)
             values == assemble(fn, region)
             volume == assemble([i \in Cells |-> 1], region)
         IN  IF volume.n = 0
             THEN Computed(self, "ZeroDivisionError", NoResult, FALSE)
             ELSE Computed(self, "none", Div(values, volume), FALSE)

\* AverageVolumeCylindrical.compute extracting the coordinate on every call
compute_AverageVolumeCylindrical_AlwaysExtract(self, fn) ==
    IF self.function = "None"
    THEN Computed(self, IF self.r = "None" THEN "AttributeError" ELSE "TypeError",
                  NoResult, FALSE)
    ELSE LET o == [self EXCEPT !.r = "x[0]"]
             region == CellsOf(o.volume)
             width == Angle(o.azimuth_range[2] - o.azimuth_range[1])
             values ==
                 Mul(assemble([i \in Cells |->
                                  fn[i] * RadialCoordinate(o.r, i) * o.z], region),
                     width)
             volume ==
                 Mul(assemble([i \in Cells |->
                                  1 * RadialCoordinate(o.r, i) * o.z], region),
                     width)
         IN  IF volume.n = 0
             THEN Computed(o, "ZeroDivisionError", NoResult, TRUE)
             ELSE Computed(o, "none", Mul(Div(values, volume), width), TRUE)

\* AverageVolumeCylindrical.compute
compute_AverageVolumeCylindrical(self, fn) ==
    IF self.function = "None"
    THEN Computed(self, IF self.r = "None" THEN "AttributeError" ELSE "TypeError",
                  NoResult, FALSE)
    ELSE LET extract == self.r = "None"
             o == IF extract THEN [self EXCEPT !.r = "x[0]"] ELSE self
             region == CellsOf(o.volume)
             width == Angle(o.azimuth_range[2] - o.azimuth_range[1])
             values ==
                 Mul(assemble([i \in Cells |->
                                  fn[i] * RadialCoordinate(o.r, i) * o.z], region),
                     width)
             volume ==
                 Mul(assemble([i \in Cells |->
                                  1 * RadialCoordinate(o.r, i) * o.z], region),
                     width)
         IN  IF volume.n = 0
             THEN Computed(o, "ZeroDivisionError", NoResult, extract)
             ELSE Computed(o, "none", Mul(Div(values, volume), width), extract)

\* AverageVolumeSpherical.compute: np.cos makes the operands numpy floats,
\* whose 0.0 / 0.0 is nan
compute_AverageVolumeSpherical(self, fn) ==
    IF self.function = "None"
    THEN Computed(self, IF self.r = "None" THEN "AttributeError" ELSE "TypeError",
                  NoResult, FALSE)
    ELSE LET extract == self.r = "None"
             o == IF extract THEN [self EXCEPT !.r = "x[0]"] ELSE self
             region == CellsOf(o.volume)
             width == Angle(o.polar_range[2] - o.polar_range[1])
             cosines ==
                 Num(-Cos(o.azimuth_range[2]) + Cos(o.azimuth_range[1]), 1, 0)
             values ==
                 Mul(Mul(assemble([i \in Cells |->
                                      fn[i] * RadialCoordinate(o.r, i)
                                            * RadialCoordinate(o.r, i)], region),
                         width), cosines)
             volume ==
                 Mul(Mul(assemble([i \in Cells |->
                                      1 * RadialCoordinate(o.r, i)
                                        * RadialCoordinate(o.r, i)], region),
                         width), cosines)
         IN  IF volume.n = 0
             THEN Computed(o, "none", NaN, extract)
             ELSE Computed(o, "none", Div(values, volume), extract)

\* compute() of the object's class
compute(self, fn) ==
    CASE self.kind = "TotalVolume" -> compute_TotalVolume(self, fn)
      [] self.kind = "TotalSurface" -> compute_TotalSurface(self, fn)
      [] self.kind = "AverageVolume" -> compute_AverageVolume(self, fn)
      [] self.kind = "AverageVolumeCylindrical" ->
            compute_AverageVolumeCylindrical(self, fn)
      [] OTHER -> compute_AverageVolumeSpherical(self, fn)

VCall(op, id, exc, res) ==
    [op |-> op, id |-> id, arg |-> <<>>, exc |-> exc, res |-> res]

ConstructTotalVolume(id) ==
    /\ phase = "setup"
    /\ ~vq[id].alive
    /\ \E volume \in Volumes :
          vq' = [vq EXCEPT ![id] = VolumeQuantity_init("TotalVolume", volume)]
    /\ last' = VCall("__init__", id, "none", NoResult)
    /\ UNCHANGED <<sq, fs, nWrite, u, phase, nExtract>>

ConstructTotalSurface(id) ==
    /\ phase = "setup"
    /\ ~vq[id].alive
    /\ \E surface \in Volumes :
          vq' = [vq EXCEPT ![id] = VolumeQuantity_init("TotalSurface", surface)]
    /\ last' = VCall("__init__", id, "none", NoResult)
    /\ UNCHANGED <<sq, fs, nWrite, u, phase, nExtract>>

ConstructAverageVolume(id) ==
    /\ phase = "setup"
    /\ ~vq[id].alive
    /\ \E volume \in Volumes :
          vq' = [vq EXCEPT ![id] = VolumeQuantity_init("AverageVolume", volume)]
    /\ last' = VCall("__init__", id, "none", NoResult)
    /\ UNCHANGED <<sq, fs, nWrite, u, phase, nExtract>>

ConstructCylindrical(id) ==
    /\ phase = "setup"
    /\ ~vq[id].alive
    /\ \E volume \in Volumes, azimuth_range \in RangeInputs :
          LET r == AverageVolumeCylindrical_init(volume, 2, azimuth_range)
          IN  /\ vq' = [vq EXCEPT ![id] = r.obj]
              /\ last' = VCall("__init__", id, r.exc, NoResult)
    /\ UNCHANGED <<sq, fs, nWrite, u, phase, nExtract>>

ConstructSpherical(id) ==
    /\ phase = "setup"
    /\ ~vq[id].alive
    /\ \E volume \in Volumes, azimuth_range \in RangeInputs,
          polar_range \in RangeInputs :
          LET r == AverageVolumeSpherical_init(volume, azimuth_range, polar_range)
          IN  /\ vq' = [vq EXCEPT ![id] = r.obj]
              /\ last' = VCall("__init__", id, r.exc, NoResult)
    /\ UNCHANGED <<sq, fs, nWrite, u, phase, nExtract>>

HasAzimuth(o) ==
    o.alive /\ o.kind \in {"AverageVolumeCylindrical", "AverageVolumeSpherical"}

SetAzimuthRange(id) ==
    /\ HasAzimuth(vq[id])
    /\ \E value \in RangeInputs :
          LET r == set_azimuth_range(vq[id], value)
          IN  /\ vq' = [vq EXCEPT ![id] = r.obj]
              /\ last' = VCall("azimuth_range", id, r.exc, NoResult)
    /\ UNCHANGED <<sq, fs, nWrite, u, phase, nExtract>>

SetPolarRange(id) ==
    /\ vq[id].alive
    /\ vq[id].kind = "AverageVolumeSpherical"
    /\ \E value \in RangeInputs :
          LET r == set_polar_range(vq[id], value)
          IN  /\ vq' = [vq EXCEPT ![id] = r.obj]
              /\ last' = VCall("polar_range", id, r.exc, NoResult)
    /\ UNCHANGED <<sq, fs, nWrite, u, phase, nExtract>>

\* the driver initialises the problem: every quantity's function is bound to
\* the solution of its field
Initialise ==
    /\ phase = "setup"
    /\ phase' = "run"
    /\ vq' = [id \in Ids |->
                 IF vq[id].alive THEN [vq[id] EXCEPT !.function = "u"] ELSE vq[id]]
    /\ last' = VCall("initialise", 0, "none", NoResult)
    /\ UNCHANGED <<sq, fs, nWrite, u, nExtract>>

\* the driver advances the solve by a time step: the solution changes
Solve ==
    /\ phase = "run"
    /\ \E fn \in [Cells -> 0..MaxField] : u' = fn
    /\ last' = VCall("solve", 0, "none", NoResult)
    /\ UNCHANGED <<sq, fs, nWrite, vq, phase, nExtract>>

Compute(id) ==
    /\ vq[id].alive
    /\ LET r == compute(vq[id], u)
       IN  /\ vq' = [vq EXCEPT ![id] = r.obj]
           /\ nExtract' = [nExtract EXCEPT ![id] = IF r.extracted THEN @ + 1 ELSE @]
           /\ last' = VCall("compute", id, r.exc, r.res)
    /\ UNCHANGED <<sq, fs, nWrite, u, phase>>

AverageInit ==
    /\ sq = NewObject
    /\ fs = [name \in StrInputs |-> NoFile]
    /\ nWrite = 0
    /\ last = Call("none", <<>>, "none")
    /\ vq = [id \in Ids |-> NoQuantity]
    /\ u = [i \in Cells |-> 0]
    /\ phase = "setup"
    /\ nExtract = [id \in Ids |-> 0]

AverageNext ==
    \E id \in Ids :
        \/ ConstructTotalVolume(id)
        \/ ConstructTotalSurface(id)
        \/ ConstructAverageVolume(id)
        \/ ConstructCylindrical(id)
        \/ ConstructSpherical(id)
        \/ SetAzimuthRange(id)
        \/ SetPolarRange(id)
        \/ Initialise
        \/ Solve
        \/ Compute(id)

SpecAverage == AverageInit /\ [][AverageNext]_vars


SurfaceInit ==
    /\ sq = NewObject
    /\ fs = [name \in StrInputs |-> NoFile]
    /\ nWrite = 0
    /\ last = Call("none", <<>>, "none")
    /\ vq = [id \in Ids |-> NoQuantity]
    /\ u = [i \in Cells |-> 0]
    /\ phase = "setup"
    /\ nExtract = [id \in Ids |-> 0]

SurfaceNext ==
    \/ Construct
    \/ SetFilename
    \/ SetSurfaceSubdomain
    \/ SetField
    \/ SetValue
    \/ Write

SpecSurface == SurfaceInit /\ [][SurfaceNext]_vars


(***************************************************************************)
(* SpecSetters: the objects are constructed, and only setters are called.  *)
(***************************************************************************)
SettersInit ==
    /\ \E field \in Inputs, surface_subdomain \in Inputs, filename \in Inputs :
          LET r == SurfaceQuantity_init(field, surface_subdomain, filename)
          IN  r.exc = "none" /\ sq = r.obj
    /\ \E azimuth_range \in RangeInputs, polar_range \in RangeInputs :
          LET c == AverageVolumeCylindrical_init(1, 2, azimuth_range)
              s == AverageVolumeSpherical_init(1, azimuth_range, polar_range)
          IN  /\ c.exc = "none"
              /\ s.exc = "none"
              /\ vq = [id \in Ids |-> IF id = 1 THEN c.obj ELSE s.obj]
    /\ fs = [name \in StrInputs |-> NoFile]
    /\ nWrite = 0
    /\ last = Call("none", <<>>, "none")
    /\ u = [i \in Cells |-> 0]
    /\ phase = "setup"
    /\ nExtract = [id \in Ids |-> 0]

SettersNext ==
    \/ SetFilename
    \/ SetSurfaceSubdomain
    \/ SetField
    \/ \E id \in Ids : SetAzimuthRange(id)
    \/ \E id \in Ids : SetPolarRange(id)

SpecSetters == SettersInit /\ [][SettersNext]_vars


(***************************************************************************)
(* Properties                                                              *)
(***************************************************************************)
AverageKinds ==
    {"AverageVolume", "AverageVolumeCylindrical", "AverageVolumeSpherical"}
RadialKinds == {"AverageVolumeCylindrical", "AverageVolumeSpherical"}

\* the string ends with the four characters . c s v
HasCsvSuffix(s) ==
    /\ Len(s) >= 4
    /\ s[Len(s) - 3] = "."
    /\ s[Len(s) - 2] = "c"
    /\ s[Len(s) - 1] = "s"
    /\ s[Len(s)] = "v"

ValidField(v) == v.t \in {"Species", "str"}
ValidSubdomain(v) == v.t \in {"int", "SurfaceSubdomain1D"}
ValidFilename(v) == v.t = "NoneType" \/ (v.t = "str" /\ HasCsvSuffix(v.s))

\* both endpoints of the range lie in [lo, hi]
Inside(range, lo, hi) ==
    /\ lo <= range[1] /\ range[1] <= hi
    /\ lo <= range[2] /\ range[2] <= hi

\* the field is the constant c over the subdomain, which has cells
ConstantOn(region, c) == region # {} /\ \A i \in region : u[i] = c

(* C1: for a field that is the constant c over a subdomain of nonzero      *)
(* measure, compute() of every average-volume variant returns c, whatever  *)
(* angular ranges the setters accepted.                                    *)
C1_ConstantFieldAverage ==
    (last.op = "compute" /\ vq[last.id].kind \in AverageKinds
        /\ vq[last.id].function = "u")
    => \A c \in 0..MaxField :
          ConstantOn(CellsOf(vq[last.id].volume), c)
          => last.exc = "none" /\ last.res = Num(c, 1, 0)

(* C2: the stored angular ranges lie inside their bounds with both         *)
(* endpoints (cylindrical azimuth in [0, 2 pi], spherical azimuth in       *)
(* [0, pi], polar in [-pi, pi]), and assigning a range with an endpoint    *)
(* outside the bounds raises a value error.                                *)
C2_RangesInsideBounds ==
    \A id \in Ids :
        LET o == vq[id]
        IN  /\ (o.alive /\ o.kind = "AverageVolumeCylindrical")
               => /\ Inside(o.azimuth_range, 0, TwoPi)
                  /\ \A v \in RangeInputs :
                        ~Inside(v, 0, TwoPi)
                        => set_azimuth_range(o, v).exc = "ValueError"
            /\ (o.alive /\ o.kind = "AverageVolumeSpherical")
               => /\ Inside(o.azimuth_range, 0, Pi)
                  /\ Inside(o.polar_range, -Pi, Pi)
                  /\ \A v \in RangeInputs :
                        /\ ~Inside(v, 0, Pi)
                           => set_azimuth_range(o, v).exc = "ValueError"
                        /\ ~Inside(v, -Pi, Pi)
                           => set_polar_range(o, v).exc = "ValueError"

(* C3: while the stored filename is None no step opens, creates or writes  *)
(* a file, and write_to_file is true exactly when the filename is not      *)
(* None.                                                                   *)
C3_NoFilenameNoFileAccess ==
    [][ /\ (sq.alive /\ sq.filename = PyNone) => fs' = fs
        /\ sq'.alive => (write_to_file(sq') <=> sq'.filename # PyNone) ]_vars

\* a write(t) raised on the None filename after an earlier write made a file
C3_Witness ==
    /\ last.op = "write"
    /\ last.exc = "TypeError"
    /\ sq.filename = PyNone
    /\ \E name \in StrInputs : fs[name].exists

(* C4: the stored filename is None or a string ending in .csv; assigning   *)
(* None or such a string succeeds and stores it, assigning a non-string    *)
(* raises a type error and a string without the suffix a value error.      *)
C4_FilenameValidated ==
    /\ sq.alive => ValidFilename(sq.filename)
    /\ last.op = "filename"
       => LET v == last.arg[1]
          IN  /\ ValidFilename(v) => (last.exc = "none" /\ sq.filename = v)
              /\ v.t \notin {"NoneType", "str"} => last.exc = "TypeError"
              /\ (v.t = "str" /\ ~HasCsvSuffix(v.s)) => last.exc = "ValueError"

\* the assignment of "o.txt" raised a value error
C4_Witness ==
    /\ last.op = "filename"
    /\ last.arg = <<PyStr(<<"o", ".", "t", "x", "t">>)>>
    /\ last.exc = "ValueError"
    /\ sq.filename.t = "str"

\* the rows of every file
Rows(files) == [name \in StrInputs |-> files[name].rows]

\* the step is a write(t) on a configured filename
WriteStep == last'.op = "write" /\ nWrite' = nWrite + 1 /\ sq.filename.t = "str"

(* C5, as stated: every write(t) call on a quantity with a configured      *)
(* filename appends exactly one row (t, value) to that file and leaves     *)
(* every earlier row unchanged.                                            *)
C5_EveryWriteAppends ==
    [][ WriteStep
        => Rows(fs') = [Rows(fs) EXCEPT ![sq.filename.s] =
                            Append(@, <<last'.arg[1].n, sq.value.n>>)] ]_vars

(* C5, amended: a write(t) call on a quantity with a configured filename   *)
(* whose value attribute has been assigned appends exactly one row         *)
(* (t, value) to that file and leaves every earlier row and every other    *)
(* file unchanged; a write(t) before value is assigned opens (and so       *)
(* creates) the file, appends no row and raises an attribute error.        *)
C5_WriteWithValueAppends ==
    [][ WriteStep
        => IF sq.value.t # "<unset>"
           THEN /\ last'.exc = "none"
                /\ Rows(fs') = [Rows(fs) EXCEPT ![sq.filename.s] =
                                   Append(@, <<last'.arg[1].n, sq.value.n>>)]
                /\ fs'[sq.filename.s].exists
           ELSE /\ last'.exc = "AttributeError"
                /\ Rows(fs') = Rows(fs)
                /\ fs'[sq.filename.s].exists ]_vars

\* two write calls left two rows with their times, in call order
C5_Witness ==
    /\ last.op = "write"
    /\ last.exc = "none"
    /\ \E name \in StrInputs :
          /\ Len(fs[name].rows) = 2
          /\ fs[name].rows[1] = <<2, 7>>
          /\ fs[name].rows[2] = <<1, 7>>

(* C6: the stored subdomain is a non-boolean integer or a                  *)
(* SurfaceSubdomain1D handle; assigning True, False or a value of any      *)
(* other type raises a type error at the assignment, in the setter and in  *)
(* __init__ alike.                                                         *)
C6_SubdomainValidated ==
    /\ sq.alive => ValidSubdomain(sq.surface_subdomain)
    /\ last.op = "surface_subdomain"
       => LET v == last.arg[1]
          IN  /\ ValidSubdomain(v)
                 => (last.exc = "none" /\ sq.surface_subdomain = v)
              /\ ~ValidSubdomain(v) => last.exc = "TypeError"
    /\ (last.op = "__init__" /\ ValidField(last.arg[1])
          /\ ~ValidSubdomain(last.arg[2]))
       => (last.exc = "TypeError" /\ ~sq.alive)

\* the assignment of True raised a type error and the stored integer stayed
C6_Witness ==
    /\ last.op = "surface_subdomain"
    /\ last.arg = <<PyBool(TRUE)>>
    /\ last.exc = "TypeError"
    /\ sq.surface_subdomain = PyInt(1)

(* C7: __init__ raises exactly when one of field, subdomain and filename   *)
(* is invalid, whichever it is; no object exists then, and only an         *)
(* existing, validly configured object is ever written to a file.          *)
C7_MisconfiguredNeverConstructed ==
    /\ last.op = "__init__"
       => LET valid == /\ ValidField(last.arg[1])
                       /\ ValidSubdomain(last.arg[2])
                       /\ ValidFilename(last.arg[3])
          IN  /\ valid => (last.exc = "none" /\ sq.alive)
              /\ ~valid => (last.exc \in {"TypeError", "ValueError"} /\ ~sq.alive)
    /\ ~sq.alive => (nWrite = 0 /\ \A name \in StrInputs : fs[name] = NoFile)
    /\ sq.alive => /\ ValidField(sq.field)
                   /\ ValidSubdomain(sq.surface_subdomain)
                   /\ ValidFilename(sq.filename)

\* __init__ raised on the filename, the last of three arguments, the other
\* two being valid
C7_Witness ==
    /\ last.op = "__init__"
    /\ ValidField(last.arg[1])
    /\ ValidSubdomain(last.arg[2])
    /\ ~ValidFilename(last.arg[3])
    /\ last.exc = "ValueError"
    /\ ~sq.alive

(* C8, as stated: a compute() call leaves every attribute of every         *)
(* quantity and every file unchanged.                                      *)
C8_ComputeChangesNothing ==
    [][ last'.op = "compute" => (vq' = vq /\ fs' = fs /\ sq' = sq) ]_vars

(* C8, amended: a compute() call leaves every attribute of every quantity  *)
(* and every file unchanged, except the radial coordinate r of the         *)
(* cylindrical or spherical instance it is called on, which the first      *)
(* compute() on a bound function sets from None to the mesh coordinate.    *)
C8_ComputeChangesOnlyR ==
    [][ last'.op = "compute"
        => LET id == last'.id
           IN  /\ fs' = fs /\ sq' = sq /\ u' = u
               /\ \A j \in Ids \ {id} : vq'[j] = vq[j]
               /\ [vq'[id] EXCEPT !.r = vq[id].r] = vq[id]
               /\ vq'[id].r # vq[id].r
                  => /\ vq[id].kind \in RadialKinds
                     /\ vq[id].function = "u"
                     /\ vq[id].r = "None"
                     /\ vq'[id].r = "x[0]" ]_vars

\* a compute() returned a value on an instance whose coordinate is cached
C8_Witness ==
    /\ last.op = "compute"
    /\ last.exc = "none"
    /\ last.res.t = "float"
    /\ vq[last.id].kind = "AverageVolumeCylindrical"
    /\ vq[last.id].r = "x[0]"

(* C9: in the cylindrical and spherical variants r is None from            *)
(* construction until the first compute() on the bound solution function,  *)
(* that compute() extracts it from the mesh, no later compute() extracts   *)
(* it again, and a compute() on one instance leaves the r of the other     *)
(* instance alone.                                                         *)
C9_RadialCoordinateCachedOnce ==
    /\ \A id \in Ids :
          LET o == vq[id]
          IN  /\ nExtract[id] <= 1
              /\ (o.r = "None") <=> (nExtract[id] = 0)
              /\ o.r # "None" => (o.kind \in RadialKinds /\ o.function = "u")
    /\ (last.op = "compute" /\ vq[last.id].kind \in RadialKinds
          /\ vq[last.id].function = "u")
       => vq[last.id].r = "x[0]"

\* one instance has computed and holds its coordinate; the other, bound to
\* the same function, has not and holds none
C9_Witness ==
    /\ last.op = "compute"
    /\ vq[1].kind \in RadialKinds /\ vq[1].r = "x[0]" /\ nExtract[1] = 1
    /\ vq[2].kind \in RadialKinds /\ vq[2].function = "u" /\ vq[2].r = "None"

(* C10: a rejected assignment changes nothing: when a setter of filename,  *)
(* field, surface_subdomain, azimuth_range or polar_range raises, every    *)
(* attribute of every object is what it was before the assignment.         *)
C10_RejectedAssignmentChangesNothing ==
    [][ last'.exc # "none" => (sq' = sq /\ vq' = vq) ]_vars

\* a polar range was rejected
C10_Witness ==
    /\ last.op = "polar_range"
    /\ last.exc = "ValueError"
    /\ vq[2].polar_range = <<-1, 2>>

====
